---- MODULE Spec2Model ----
(***************************************************************************)
(* Model of the Advent-of-Code ranking dashboard's data pipeline:          *)
(*   src/src/scraper.py          AOCScraper (row parser, table scraper)    *)
(*   src/src/data_processing.py  snapshot store helpers, load_data and     *)
(*                               create_metrics_dataframe                  *)
(* Points are held in tenths so that "7.5" is the integer 75.              *)
(***************************************************************************)
EXTENDS Integers, Sequences, FiniteSets, TLC

VARIABLES
    row,        \* the <tr> handed to _process_row (row-parser specification)
    record,     \* what _process_row returned for it
    clock,      \* wall clock, in seconds
    ticks,      \* number of clock advances so far (bounds the run)
    files,      \* ./data : stamp of aoc_rankings_<stamp>.csv -> file content
    storeLog,   \* snapshot-store operations performed, oldest first
    cache,      \* the st.cache_data entry of _load
    pc,         \* position of the one load_data() call in flight
    page,       \* the page the call's scrape fetched
    df,         \* _load's local df
    scraped,    \* what scrape_data returned in the call in flight
    result,     \* what the last load_data() call returned
    raised,     \* TRUE when the last load_data() call raised to its caller
    signals,    \* st.warning / st.error messages surfaced by the call
    log,        \* operations the call performed, in order
    calls,      \* number of load_data() calls started
    dataset,    \* the DataFrame handed to create_metrics_dataframe
    metrics,    \* what create_metrics_dataframe did with it
    loaders     \* the load_data() calls of two overlapping sessions

vars == <<row, record, clock, ticks, files, storeLog, cache, pc, page, df,
          scraped, result, raised, signals, log, calls, dataset, metrics,
          loaders>>

----------------------------------------------------------------------------
(* Bounds of the model *)

MaxMarkers == 3
MaxDays == 2
LongDays == 7
MaxRows == 2
MaxTicks == 2
MaxCalls == 3
MaxStoreOps == 3

(* Program constants *)

TTL == 300
MinCells == 5
StarCap == 2

----------------------------------------------------------------------------
(* Generic helpers *)

Min(a, b) == IF a <= b THEN a ELSE b

SetMax(S) == CHOOSE x \in S : \A y \in S : y <= x

RECURSIVE SeqsUpTo(_, _)
SeqsUpTo(S, n) ==
    IF n = 0 THEN {<<>>}
    ELSE LET shorter == SeqsUpTo(S, n - 1)
         IN  shorter \cup {Append(s, x) : s \in {t \in shorter : Len(t) = n - 1}, x \in S}

SeqsOfLen(S, n) == {s \in SeqsUpTo(S, n) : Len(s) = n}

----------------------------------------------------------------------------
(* Row Parser: AOCScraper._process_row *)

\* A <td>: its text and the number of span.star1 / span.star0 inside it.
Cell(text, gold, silver) == [text |-> text, gold |-> gold, silver |-> silver]

TextCell(text) == Cell(text, 0, 0)

StarCell(gold, silver) == Cell("", gold, silver)

\* str.strip(): surrounding whitespace removed.
Strip(text) ==
    CASE text = " 20 " -> "20"
      [] text = " BCN" -> "BCN"
      [] OTHER -> text

\* int(s): the texts that parse as an integer, and their value.
IntTexts == {"0", "3", "20"}

IntValue(text) ==
    CASE text = "0" -> 0
      [] text = "3" -> 3
      [] text = "20" -> 20
      [] OTHER -> 0

\* float(s): the texts that parse as a float, and their value in tenths.
FloatTexts == {"0", "3", "20", "7.5"}

FloatValue(text) ==
    CASE text = "0" -> 0
      [] text = "3" -> 30
      [] text = "20" -> 200
      [] text = "7.5" -> 75
      [] OTHER -> 0

NoRecord == [kind |-> "none"]

PendingRecord == [kind |-> "pending"]

\* StarStep without lines 48-49: the raw marker counts are accumulated.
StarStep_RawCounts(cell, day_num, st) ==
    [completed_days |->
         IF (cell.gold + cell.silver > 0) /\ day_num > st.completed_days
         THEN day_num ELSE st.completed_days,
     gold_stars |-> st.gold_stars + cell.gold,
     silver_stars |-> st.silver_stars + cell.silver,
     days |-> Append(st.days, Min(cell.gold + cell.silver, StarCap))]

\* StarStep counting the days that have a star instead of keeping the highest.
StarStep_CountDays(cell, day_num, st) ==
    LET day_gold == Min(cell.gold, StarCap)
        day_silver == Min(cell.silver, StarCap)
    IN  [completed_days |->
             IF day_gold + day_silver > 0
             THEN st.completed_days + 1 ELSE st.completed_days,
         gold_stars |-> st.gold_stars + day_gold,
         silver_stars |-> st.silver_stars + day_silver,
         days |-> Append(st.days, Min(day_gold + day_silver, StarCap))]

\* Lines 37-60: one pass of the loop over star_cells, for the cell at index i
\* (day_num = i), st holding completed_days, gold_stars, silver_stars and the
\* day_<n> values written so far.
StarStep(cell, day_num, st) ==
    LET day_gold == Min(cell.gold, StarCap)
        day_silver == Min(cell.silver, StarCap)
    IN  [completed_days |->
             IF (day_gold + day_silver > 0) /\ day_num > st.completed_days
             THEN day_num ELSE st.completed_days,
         gold_stars |-> st.gold_stars + day_gold,
         silver_stars |-> st.silver_stars + day_silver,
         days |-> Append(st.days, Min(day_gold + day_silver, StarCap))]

RECURSIVE StarLoop(_, _, _)
StarLoop(star_cells, i, st) ==
    IF i > Len(star_cells) THEN st
    ELSE StarLoop(star_cells, i + 1, StarStep(star_cells[i], i, st))

process_row(r) ==
    IF Len(r) < MinCells THEN NoRecord
    ELSE IF Strip(r[3].text) \notin IntTexts \/ Strip(r[4].text) \notin FloatTexts
    THEN NoRecord      \* int()/float() raise ValueError, caught at line 70
    ELSE LET st == StarLoop(SubSeq(r, MinCells, Len(r)), 1,
                            [completed_days |-> 0, gold_stars |-> 0,
                             silver_stars |-> 0, days |-> <<>>])
         IN  [kind |-> "record",
              login |-> Strip(r[1].text),
              campus |-> Strip(r[2].text),
              streak |-> IntValue(Strip(r[3].text)),
              points |-> FloatValue(Strip(r[4].text)),
              days |-> st.days,
              completed_days |-> st.completed_days,
              gold_stars |-> st.gold_stars,
              silver_stars |-> st.silver_stars,
              total_stars |-> st.gold_stars + st.silver_stars]

----------------------------------------------------------------------------
(* Inputs of the row-parser specification *)

Headers ==
    { <<TextCell("alice"), TextCell(" BCN"), TextCell("3"), TextCell("20")>>,
      <<TextCell("bob"), TextCell("MAD"), TextCell("7.5"), TextCell("20")>>,
      <<TextCell("carol"), TextCell("UDZ"), TextCell("0"), TextCell("n/a")>>,
      <<TextCell("dave"), TextCell("MAL"), TextCell("3")>> }

ValidHeader == <<TextCell("erin"), TextCell("BCN"), TextCell(" 20 "), TextCell("7.5")>>

StarCells == {StarCell(g, s) : g \in 0..MaxMarkers, s \in 0..MaxMarkers}

FewMarkerCells == {StarCell(0, 0), StarCell(1, 0), StarCell(0, 1)}

\* Every marker count on a few days under a valid header, a few marker counts
\* under every header, and long rows of few markers.
RowInputs ==
    {ValidHeader \o d : d \in SeqsUpTo(StarCells, MaxDays)}
    \cup {h \o d : h \in Headers, d \in SeqsUpTo(FewMarkerCells, MaxDays)}
    \cup {ValidHeader \o d : d \in SeqsOfLen(FewMarkerCells, LongDays)}

NoRow == <<>>

----------------------------------------------------------------------------
(* Data frames *)

\* A pandas DataFrame: whether it has a 'points' column, and its rows in order.
Frame(points, rows) == [kind |-> "frame", points |-> points, rows |-> rows]

\* pd.DataFrame(): no columns, no rows.
EmptyFrame == Frame(FALSE, <<>>)

\* Python's None where a DataFrame is expected.
NoneFrame == [kind |-> "none", points |-> FALSE, rows |-> <<>>]

\* df.empty
IsEmpty(frame) == frame.rows = <<>>

IndexPerms(n) ==
    {p \in [1..n -> 1..n] : \A i, j \in 1..n : i # j => p[i] # p[j]}

IsSortedDesc(rows) ==
    \A i, j \in 1..Len(rows) : i < j => rows[i].points >= rows[j].points

\* df.sort_values('points', ascending=False).reset_index(drop=True): every order
\* the (unstable) sort may produce, rows of equal points in either order.
sort_values(rows) ==
    {s \in {[i \in 1..Len(rows) |-> rows[p[i]]] : p \in IndexPerms(Len(rows))} :
        IsSortedDesc(s)}

\* The multiset of rows of a sequence, as a function row -> multiplicity.
RowBag(rows) ==
    [r \in {rows[i] : i \in 1..Len(rows)} |->
        Cardinality({i \in 1..Len(rows) : rows[i] = r})]

----------------------------------------------------------------------------
(* Table Scraper: AOCScraper.scrape_data *)

RECURSIVE ParseRows(_, _)
\* Lines 108-112: the rows _process_row accepts, in page order.
ParseRows(trs, i) ==
    IF i > Len(trs) THEN <<>>
    ELSE LET row_data == process_row(trs[i])
         IN  IF row_data.kind = "record"
             THEN <<row_data>> \o ParseRows(trs, i + 1)
             ELSE ParseRows(trs, i + 1)

PadDays(days, n) == [i \in 1..n |-> IF i <= Len(days) THEN days[i] ELSE 0]

\* pd.DataFrame(data) followed by _convert_numeric_columns: a day column a row
\* lacks is NaN, coerced to 0.
convert_numeric_columns(data) ==
    LET width == SetMax({Len(data[i].days) : i \in 1..Len(data)} \cup {0})
    IN  [i \in 1..Len(data) |-> [data[i] EXCEPT !.days = PadDays(@, width)]]

\* What the try body of scrape_data does on a page: it returns a frame, or an
\* exception leaves it (kind "raise").
scrape_body(fetched) ==
    IF fetched.fetch # "ok" THEN {[kind |-> "raise", frame |-> EmptyFrame]}
    ELSE IF ~fetched.table THEN {[kind |-> "return", frame |-> EmptyFrame]}
    ELSE IF ~fetched.tbody THEN {[kind |-> "return", frame |-> EmptyFrame]}
    ELSE LET data == ParseRows(fetched.rows, 1)
         IN  IF data = <<>> THEN {[kind |-> "return", frame |-> EmptyFrame]}
             ELSE IF fetched.fault THEN {[kind |-> "raise", frame |-> EmptyFrame]}
             ELSE {[kind |-> "return", frame |-> Frame(TRUE, s)] :
                      s \in sort_values(convert_numeric_columns(data))}

\* scrape_data without its except clause.
scrape_data_NoExcept(fetched) == scrape_body(fetched)

\* Lines 92-125: the except clause turns every exception into an empty frame.
scrape_data(fetched) ==
    {IF b.kind = "raise" THEN [kind |-> "return", frame |-> EmptyFrame] ELSE b :
        b \in scrape_body(fetched)}

\* Pages the fetch can meet.
AliceRow ==
    <<TextCell("alice"), TextCell(" BCN"), TextCell("3"), TextCell("20"),
      StarCell(2, 0)>>

BobRow ==
    <<TextCell("bob"), TextCell("MAD"), TextCell("0"), TextCell("7.5"),
      StarCell(0, 0), StarCell(1, 3)>>

\* Same points as AliceRow.
CarolRow ==
    <<TextCell("carol"), TextCell("UDZ"), TextCell(" 20 "), TextCell("20"),
      StarCell(1, 1)>>

\* Fewer than five cells.
ShortRow == <<TextCell("dave"), TextCell("MAL"), TextCell("3")>>

\* A streak that is no integer.
BadStreakRow ==
    <<TextCell("eve"), TextCell("MAD"), TextCell("7.5"), TextCell("3"),
      StarCell(1, 0)>>

RowUniverse == {AliceRow, BobRow, CarolRow, ShortRow, BadStreakRow}

Page(fetch, table, tbody, rows, fault) ==
    [fetch |-> fetch, table |-> table, tbody |-> tbody, rows |-> rows,
     fault |-> fault]

Pages ==
    {Page(f, TRUE, TRUE, <<>>, FALSE) : f \in {"timeout", "http_error"}}
    \cup {Page("ok", FALSE, FALSE, <<>>, FALSE), Page("ok", TRUE, FALSE, <<>>, FALSE)}
    \cup {Page("ok", TRUE, TRUE, rs, FALSE) : rs \in SeqsUpTo(RowUniverse, MaxRows)}
    \cup {Page("ok", TRUE, TRUE, <<r>>, TRUE) : r \in RowUniverse}

----------------------------------------------------------------------------
(* Snapshot Store: ./data/aoc_rankings_<YYYYMMDDHHMMSS>.csv *)

\* A 14-digit capture stamp is held as the second it denotes: stamps of one
\* width order as their times do.  A piece of a file name is a word or a stamp.
Word(w) == [kind |-> "word", text |-> w, stamp |-> 0]

Digits(n) == [kind |-> "digits", text |-> "", stamp |-> n]

\* os.path.basename(path).split('_'), each part then split on '.'.
SplitName(stamp) ==
    << <<Word("aoc")>>, <<Word("rankings")>>, <<Digits(stamp), Word("csv")>> >>

\* datetime.strptime(s, '%Y%m%d%H%M%S'): ValueError unless s is a stamp.
strptime(piece) ==
    IF piece.kind = "digits" THEN [ok |-> TRUE, time |-> piece.stamp]
    ELSE [ok |-> FALSE, time |-> 0]

\* The path glob.glob yields for a file of ./data.
GlobPath(stamp) == [dir |-> "./data", stamp |-> stamp]

NoPath == [dir |-> "", stamp |-> 0]

\* Line 69: basename.split('_')[1].split('.')[0], Python indices counted from 0.
TimestampStr(path) == SplitName(path.stamp)[1 + 1][0 + 1]

\* Lines 52-77: (filepath, timestamp), or ('', None) as [path |-> NoPath, ok |-> FALSE].
get_latest_csv(dir) ==
    IF DOMAIN dir = {} THEN [path |-> NoPath, ok |-> FALSE, time |-> 0]
    ELSE LET latest_file == GlobPath(SetMax(DOMAIN dir))
             timestamp == strptime(TimestampStr(latest_file))
         IN  IF timestamp.ok
             THEN [path |-> latest_file, ok |-> TRUE, time |-> timestamp.time]
             ELSE [path |-> NoPath, ok |-> FALSE, time |-> 0]

\* A file's content: whether pd.read_csv can read it, and the frame it yields.
FileContent(readable, frame) == [readable |-> readable, frame |-> frame]

\* Lines 79-92.
load_backup_data(dir) ==
    LET found == get_latest_csv(dir)
    IN  IF found.path = NoPath THEN NoneFrame
        ELSE IF ~dir[found.path.stamp].readable THEN NoneFrame
        ELSE dir[found.path.stamp].frame

RECURSIVE RemoveLoop(_, _, _, _, _)
\* Lines 37-44: one os.remove per file other than except_file; a failing
\* os.remove (the file is in locked) is logged and the loop goes on.
RemoveLoop(csv_files, i, except_file, locked, dir) ==
    IF i > Len(csv_files) THEN dir
    ELSE LET file == csv_files[i]
         IN  IF file # except_file /\ file.stamp \notin locked
             THEN RemoveLoop(csv_files, i + 1, except_file, locked,
                             [n \in DOMAIN dir \ {file.stamp} |-> dir[n]])
             ELSE RemoveLoop(csv_files, i + 1, except_file, locked, dir)

RECURSIVE RemoveLoop_Abort(_, _, _, _, _)
\* The loop without the inner try: the first failing os.remove ends it.
RemoveLoop_Abort(csv_files, i, except_file, locked, dir) ==
    IF i > Len(csv_files) THEN dir
    ELSE LET file == csv_files[i]
         IN  IF file = except_file
             THEN RemoveLoop_Abort(csv_files, i + 1, except_file, locked, dir)
             ELSE IF file.stamp \in locked THEN dir
             ELSE RemoveLoop_Abort(csv_files, i + 1, except_file, locked,
                                   [n \in DOMAIN dir \ {file.stamp} |-> dir[n]])

clean_old_files_AbortOnError(csv_files, except_file, locked, dir) ==
    RemoveLoop_Abort(csv_files, 1, except_file, locked, dir)

\* Lines 25-50: csv_files is the glob's listing, in the order the glob gave it.
clean_old_files(csv_files, except_file, locked, dir) ==
    RemoveLoop(csv_files, 1, except_file, locked, dir)

RECURSIVE Orderings(_)
\* The sequences that list each element of S once.
Orderings(S) ==
    IF S = {} THEN {<<>>}
    ELSE UNION {{<<x>> \o o : o \in Orderings(S \ {x})} : x \in S}

\* The listings glob.glob may return for a directory: its files in any order.
GlobListings(dir) ==
    {[i \in 1..Len(o) |-> GlobPath(o[i])] : o \in Orderings(DOMAIN dir)}

\* Snapshot Store save(dataset) -> path: the dataset written whole to the file
\* named by the capture time; a file of that name is replaced.
save_data(frame, now, dir) ==
    [path |-> GlobPath(now),
     dir |-> [n \in DOMAIN dir \cup {now} |->
                 IF n = now THEN FileContent(TRUE, frame) ELSE dir[n]]]

\* The methods class AOCScraper defines.
AOCScraperMethods ==
    {"__init__", "_process_row", "_convert_numeric_columns", "scrape_data",
     "get_column_descriptions"}

----------------------------------------------------------------------------
(* Data Loader: load_data and its cached inner _load *)

\* The st.cache_data(ttl=300) entry of _load: the value and when it was stored.
NoCache == [valid |-> FALSE, value |-> NoneFrame, at |-> 0]

CacheEntry(value, now) == [valid |-> TRUE, value |-> value, at |-> now]

\* A cache whose entries never expire.
CacheFresh_NoExpiry(entry, now) == entry.valid

\* An entry is served while it is younger than the ttl.
CacheFresh(entry, now) == entry.valid /\ now - entry.at < TTL

WarnStale == "Could not fetch new data. Showing latest saved data."

ErrNoData == "Could not fetch new data or load backup."

Returned(value) == [kind |-> "return", value |-> value]

Raised == [kind |-> "raise", value |-> NoneFrame]

\* Line 124: df.sort_values('points', ...) if df is not None else pd.DataFrame();
\* sort_values raises KeyError on a frame without a points column.
return_value(frame) ==
    IF frame.kind = "none" THEN {Returned(EmptyFrame)}
    ELSE IF ~frame.points THEN {Raised}
    ELSE {Returned(Frame(TRUE, s)) : s \in sort_values(frame.rows)}

\* Lines 107-115: the fallback of the empty-scrape branch.
backup_branch(dir) ==
    LET backup == load_backup_data(dir)
    IN  [df |-> backup,
         signals |-> IF backup.kind # "none" THEN {WarnStale} ELSE {ErrNoData}]

\* The except clause without its "if df is not None" guard.
except_branch_NoGuard(dir) ==
    LET backup == load_backup_data(dir)
    IN  IF backup.kind = "none" THEN {[out |-> Raised, signals |-> {}]}
        ELSE {[out |-> o, signals |-> {WarnStale}] : o \in return_value(backup)}

\* Lines 126-134: the except clause of _load.
except_branch(dir) ==
    LET backup == load_backup_data(dir)
    IN  IF backup.kind # "none"
        THEN {[out |-> o, signals |-> {WarnStale}] : o \in return_value(backup)}
        ELSE {[out |-> Returned(EmptyFrame), signals |-> {}]}

PendingScrape == [kind |-> "pending", frame |-> NoneFrame]

NoPage == Page("none", FALSE, FALSE, <<>>, FALSE)

\* A store operation as it is remembered: a prune with the directory it found
\* and the files it could not delete.
StoreOp(op, path, before, locked) ==
    [op |-> op, path |-> path, before |-> before, locked |-> locked]

\* Snapshot files present before the program runs.
SnapRows == <<process_row(BobRow), process_row(AliceRow)>>

OldRows == <<process_row(CarolRow)>>

InitContents ==
    {FileContent(TRUE, Frame(TRUE, SnapRows)),
     FileContent(TRUE, Frame(TRUE, OldRows)),
     FileContent(TRUE, Frame(FALSE, SnapRows)),
     FileContent(FALSE, EmptyFrame)}

InitStamps == {0, 1}

InitDirs ==
    {d \in UNION {[S -> InitContents] : S \in SUBSET InitStamps} : TRUE}

NoDataset == [kind |-> "none"]

PendingMetrics == [kind |-> "pending"]

NoLoaders == <<>>

InitLoader ==
    /\ clock = 2
    /\ ticks = 0
    /\ storeLog = <<>>
    /\ cache = NoCache
    /\ pc = "idle"
    /\ page = NoPage
    /\ df = NoneFrame
    /\ scraped = PendingScrape
    /\ result = NoneFrame
    /\ raised = FALSE
    /\ signals = {}
    /\ log = <<>>
    /\ calls = 0
    /\ metrics = PendingMetrics

Init ==
    /\ InitLoader
    /\ loaders = NoLoaders
    /\ dataset = NoDataset
    /\ row = NoRow
    /\ record = PendingRecord
    /\ files \in InitDirs

\* load_data() is called: _load runs unless the cache holds a fresh entry.
LoadData ==
    /\ UNCHANGED <<dataset, metrics, loaders>>
    /\ pc = "idle"
    /\ calls < MaxCalls
    /\ calls' = calls + 1
    /\ raised' = FALSE
    /\ signals' = {}
    /\ log' = <<>>
    /\ page' = NoPage
    /\ df' = NoneFrame
    /\ scraped' = PendingScrape
    /\ IF CacheFresh(cache, clock)
       THEN /\ result' = cache.value
            /\ pc' = "idle"
       ELSE /\ result' = NoneFrame
            /\ pc' = "scrape"
    /\ UNCHANGED <<row, record, clock, ticks, files, storeLog, cache>>

\* Lines 104-107: scraper.scrape_data() and the test of df.empty.
Scrape ==
    /\ UNCHANGED <<dataset, metrics, loaders>>
    /\ pc = "scrape"
    /\ \E pg \in Pages : \E out \in scrape_data(pg) :
          /\ page' = pg
          /\ scraped' = out
          /\ df' = out.frame
          /\ pc' = IF out.kind = "raise" THEN "except"
                   ELSE IF IsEmpty(out.frame) THEN "backup" ELSE "save"
    /\ log' = Append(log, "scrape")
    /\ UNCHANGED <<row, record, clock, ticks, files, storeLog, cache, result,
                   raised, signals, calls>>

\* Lines 108-115.
Backup ==
    /\ UNCHANGED <<dataset, metrics, loaders>>
    /\ pc = "backup"
    /\ df' = backup_branch(files).df
    /\ signals' = signals \cup backup_branch(files).signals
    /\ log' = Append(log, "backup")
    /\ pc' = "return"
    /\ UNCHANGED <<row, record, clock, ticks, files, storeLog, cache, page,
                   scraped, result, raised, calls>>

\* Lines 117-122: scraper.save_data(df) raises AttributeError when the class has
\* no such method; otherwise the snapshot is written and the others are pruned.
Save ==
    /\ UNCHANGED <<dataset, metrics, loaders>>
    /\ pc = "save"
    /\ IF "save_data" \notin AOCScraperMethods
       THEN /\ pc' = "except"
            /\ UNCHANGED <<files, storeLog, log>>
       ELSE \E listing \in GlobListings(save_data(df, clock, files).dir) :
            \E locked \in SUBSET DOMAIN files :
               LET saved == save_data(df, clock, files)
               IN  /\ files' = clean_old_files(listing, saved.path, locked, saved.dir)
                   /\ storeLog' = <<StoreOp("save", saved.path, <<>>, {}),
                                    StoreOp("prune", saved.path, saved.dir, locked)>>
                   /\ log' = log \o <<"save", "prune">>
                   /\ pc' = "return"
    /\ UNCHANGED <<row, record, clock, ticks, cache, page, df, scraped, result,
                   raised, signals, calls>>

\* The value leaves _load: st.cache_data stores it and load_data returns it.
Finish(out) ==
    IF out.kind = "raise"
    THEN /\ raised' = TRUE
         /\ result' = NoneFrame
         /\ cache' = cache
    ELSE /\ raised' = FALSE
         /\ result' = out.value
         /\ cache' = CacheEntry(out.value, clock)

\* Line 124; a KeyError raised there is caught by the except clause.
Return ==
    /\ UNCHANGED <<dataset, metrics, loaders>>
    /\ pc = "return"
    /\ \E out \in return_value(df) :
          IF out.kind = "raise"
          THEN /\ pc' = "except"
               /\ UNCHANGED <<result, raised, cache>>
          ELSE /\ pc' = "idle"
               /\ Finish(out)
    /\ UNCHANGED <<row, record, clock, ticks, files, storeLog, page, df, scraped,
                   signals, log, calls>>

\* Lines 126-134; an exception raised inside the handler leaves load_data.
Except ==
    /\ UNCHANGED <<dataset, metrics, loaders>>
    /\ pc = "except"
    /\ \E e \in except_branch(files) :
          /\ signals' = signals \cup e.signals
          /\ Finish(e.out)
    /\ df' = load_backup_data(files)
    /\ log' = Append(log, "except")
    /\ pc' = "idle"
    /\ UNCHANGED <<row, record, clock, ticks, files, storeLog, page, scraped,
                   calls>>

\* Time passes: a second, or one second short of the cache's ttl.
Tick ==
    /\ UNCHANGED <<dataset, metrics, loaders>>
    /\ ticks < MaxTicks
    /\ ticks' = ticks + 1
    /\ \E d \in {1, TTL - 1} : clock' = clock + d
    /\ UNCHANGED <<row, record, files, storeLog, cache, pc, page, df, scraped,
                   result, raised, signals, log, calls>>

LoaderStep == Scrape \/ Backup \/ Save \/ Return \/ Except

Next == LoadData \/ Scrape \/ Backup \/ Save \/ Return \/ Except \/ Tick

Spec == Init /\ [][Next]_vars

----------------------------------------------------------------------------
(* Snapshot Store operations on their own: saves and prunes of ./data *)

SnapshotFrames == {Frame(TRUE, SnapRows), Frame(TRUE, OldRows)}

\* Snapshot Store save: a dataset is written under the current capture time.
SnapshotSave ==
    /\ UNCHANGED <<dataset, metrics, loaders>>
    /\ pc = "idle"
    /\ Len(storeLog) < MaxStoreOps
    /\ \E frame \in SnapshotFrames :
          LET saved == save_data(frame, clock, files)
          IN  /\ files' = saved.dir
              /\ storeLog' = Append(storeLog,
                                    StoreOp("save", saved.path, <<>>, {}))
    /\ UNCHANGED <<row, record, clock, ticks, cache, pc, page, df, scraped,
                   result, raised, signals, log, calls>>

\* clean_old_files(except_file): locked are the files whose os.remove fails.
CleanOldFiles ==
    /\ UNCHANGED <<dataset, metrics, loaders>>
    /\ pc = "idle"
    /\ Len(storeLog) < MaxStoreOps
    /\ \E except_file \in {GlobPath(n) : n \in DOMAIN files \cup {clock}} :
       \E listing \in GlobListings(files) :
       \E locked \in SUBSET (DOMAIN files \ {except_file.stamp}) :
          /\ files' = clean_old_files(listing, except_file, locked, files)
          /\ storeLog' = Append(storeLog,
                                StoreOp("prune", except_file, files, locked))
    /\ UNCHANGED <<row, record, clock, ticks, cache, pc, page, df, scraped,
                   result, raised, signals, log, calls>>

\* The store starts empty or with one snapshot left by an earlier run.
InitStore ==
    /\ InitLoader
    /\ loaders = NoLoaders
    /\ dataset = NoDataset
    /\ row = NoRow
    /\ record = PendingRecord
    /\ files \in {d \in InitDirs : DOMAIN d \subseteq {0} /\ \A n \in DOMAIN d : d[n].readable}

NextStore == SnapshotSave \/ CleanOldFiles \/ Tick

SpecStore == InitStore /\ [][NextStore]_vars

----------------------------------------------------------------------------
(* Row Parser on its own: one row in, one record or "invalid" out *)

InitRow ==
    /\ InitLoader
    /\ loaders = NoLoaders
    /\ dataset = NoDataset
    /\ row \in RowInputs
    /\ record = PendingRecord
    /\ files = <<>>

ParseRow ==
    /\ UNCHANGED <<dataset, metrics, loaders>>
    /\ record = PendingRecord
    /\ record' = process_row(row)
    /\ UNCHANGED <<row, clock, ticks, files, storeLog, cache, pc, page, df,
                   scraped, result, raised, signals, log, calls>>

NextRow == ParseRow

SpecRow == InitRow /\ [][NextRow]_vars

----------------------------------------------------------------------------
(* Properties of the Row Parser, stated for SpecRow *)

\* The star cells of the row parsed: day n is cell MinCells - 1 + n.
DayCell(n) == row[MinCells - 1 + n]

RECURSIVE SumOver(_, _)
SumOver(f, n) == IF n = 0 THEN 0 ELSE f[n] + SumOver(f, n - 1)

CappedGold == [n \in 1..(Len(row) - (MinCells - 1)) |-> Min(DayCell(n).gold, StarCap)]

CappedSilver == [n \in 1..(Len(row) - (MinCells - 1)) |-> Min(DayCell(n).silver, StarCap)]

\* C9: for every valid row and every day cell with g gold and s silver markers,
\* day_n = min(min(g,2)+min(s,2), 2), and gold_stars / silver_stars are the sums
\* over the days of min(g,2) and of min(s,2).
C9_PerTierCaps ==
    record.kind = "record" =>
        /\ Len(record.days) = Len(row) - (MinCells - 1)
        /\ \A n \in 1..Len(record.days) :
              record.days[n] = Min(Min(DayCell(n).gold, 2) + Min(DayCell(n).silver, 2), 2)
        /\ record.gold_stars = SumOver(CappedGold, Len(record.days))
        /\ record.silver_stars = SumOver(CappedSilver, Len(record.days))

\* C9 witness: a parsed row with a day of more than two gold markers and a day
\* whose two tiers together exceed two.
C9_Witness ==
    /\ record.kind = "record"
    /\ \E n \in 1..Len(record.days) : DayCell(n).gold > 2
    /\ \E n \in 1..Len(record.days) : DayCell(n).gold = 2 /\ DayCell(n).silver = 2

\* C10: completed_days is the largest day index n with day_n > 0, and 0 when
\* every day_n is 0.
C10_CompletedDays ==
    record.kind = "record" =>
        record.completed_days =
            SetMax({n \in 1..Len(record.days) : record.days[n] > 0} \cup {0})

\* C10 witness: a parsed row whose nonzero days are exactly 2, 5 and 7.
C10_Witness ==
    /\ record.kind = "record"
    /\ {n \in 1..Len(record.days) : record.days[n] > 0} = {2, 5, 7}
    /\ record.completed_days = 7

----------------------------------------------------------------------------
(* Properties of the Table Scraper, stated for Spec *)

\* A <tr> the Row Parser accepts: five cells or more, numeric streak and points.
ValidTr(r) ==
    /\ Len(r) >= 5
    /\ Strip(r[3].text) \in IntTexts
    /\ Strip(r[4].text) \in FloatTexts

Logins(rows) == RowBag([i \in 1..Len(rows) |-> rows[i].login])

TrLogins(trs) == RowBag([i \in 1..Len(trs) |-> Strip(trs[i][1].text)])

----------------------------------------------------------------------------
(* Properties of the Data Loader, stated for Spec *)

\* The call in flight, or the last one, missed the cache and has scraped.
Missed == scraped.kind # "pending"

SortedFrames(rows) == {Frame(TRUE, s) : s \in sort_values(rows)}

LatestFile == files[SetMax(DOMAIN files)]

\* C1: a load() that misses the cache and scrapes a non-empty dataset saves it
\* as a new snapshot, then prunes the others, then returns the scraped rows
\* sorted by points descending.
C1_FreshScrapeSavedAndReturned ==
    (pc = "idle" /\ Missed /\ ~IsEmpty(scraped.frame)) =>
        /\ ~raised
        /\ log = <<"scrape", "save", "prune">>
        /\ \E n \in DOMAIN files : files[n] = FileContent(TRUE, scraped.frame)
        /\ result \in SortedFrames(scraped.frame.rows)

\* C2: a load() that misses the cache and whose scrape is empty, with a readable
\* most recent snapshot in the directory, surfaces the stale-data warning and
\* returns that snapshot's rows sorted by points descending.
C2_StaleFallback ==
    (/\ pc = "idle" /\ Missed /\ IsEmpty(scraped.frame)
     /\ DOMAIN files # {}
     /\ LatestFile.readable /\ LatestFile.frame.points) =>
        /\ WarnStale \in signals
        /\ result \in SortedFrames(LatestFile.frame.rows)

\* C3: a load() whose scrape is empty or whose scrape/save step raises, while
\* latest() yields no snapshot, surfaces the no-data error and returns an empty
\* dataset, on the empty-result branch and on the exception branch alike.
C3_NoDataError ==
    (/\ pc = "idle" /\ Missed
     /\ (IsEmpty(scraped.frame) \/ "except" \in {log[i] : i \in 1..Len(log)})
     /\ load_backup_data(files).kind = "none") =>
        /\ ErrNoData \in signals
        /\ result = EmptyFrame

\* C4: load() never raises past its own boundary: whatever the scrape, the save
\* and the snapshot directory, every step of a call can be taken and the call
\* ends by returning a dataset.
C4_LoadNeverRaises ==
    /\ ~raised
    /\ (pc = "idle" /\ calls > 0) => result.kind = "frame"
    /\ pc # "idle" => ENABLED LoaderStep

\* C4 witness: a call went through the except clause over a directory whose
\* most recent file has no points column, and returned a dataset.
C4_Witness ==
    /\ pc = "idle"
    /\ "except" \in {log[i] : i \in 1..Len(log)}
    /\ DOMAIN files # {}
    /\ LatestFile.readable /\ ~LatestFile.frame.points
    /\ result.kind = "frame"

\* What C5 asks of one step: a call entering load_data, and a store into the cache.
CacheStep ==
    /\ (pc = "idle" /\ calls' = calls + 1) =>
          IF cache.valid /\ clock - cache.at < 300
          THEN /\ pc' = "idle"
               /\ result' = cache.value
               /\ log' = <<>>
               /\ UNCHANGED <<files, storeLog, cache>>
          ELSE pc' = "scrape"
    /\ (cache' # cache) => cache' = CacheEntry(result', clock)

\* C5: a call made while the cached result is less than 5 minutes (300 s) old
\* returns the cached dataset and performs no scrape, save or prune; a call made
\* once the window has expired goes on to a fresh scrape; and what the cache
\* holds is what the call that stored it returned.
C5_CacheWindow ==
    /\ [][CacheStep]_vars
    /\ [](pc = "scrape" => ENABLED Scrape)

\* C5 witness: the second call was served from the cache one second before the
\* window closed.
C5_Witness ==
    /\ pc = "idle"
    /\ calls = 2
    /\ log = <<>>
    /\ cache.valid
    /\ clock - cache.at = 299
    /\ result = cache.value

\* C6: whenever the directory holds a snapshot file, latest() selects the file
\* of the greatest stamp, parses the stamp from its name and returns the file's
\* dataset; it returns none only when the file cannot be read.
C6_LatestSelectsGreatest ==
    (/\ DOMAIN files # {}
     /\ \E i \in 1..Len(log) : log[i] \in {"backup", "except"}) =>
        /\ get_latest_csv(files).ok
        /\ get_latest_csv(files).path = GlobPath(SetMax(DOMAIN files))
        /\ get_latest_csv(files).time = SetMax(DOMAIN files)
        /\ df = IF LatestFile.readable THEN LatestFile.frame ELSE NoneFrame

----------------------------------------------------------------------------
(* Properties of the Snapshot Store, stated for SpecStore *)

LastOp == storeLog[Len(storeLog)]

\* The last three store operations were save, save, prune of the second save.
TwoSavesThenPrune ==
    /\ Len(storeLog) >= 3
    /\ storeLog[Len(storeLog) - 2].op = "save"
    /\ storeLog[Len(storeLog) - 1].op = "save"
    /\ LastOp.op = "prune"
    /\ LastOp.path = storeLog[Len(storeLog) - 1].path

\* What prune(keep_path) leaves: the kept file and the files it could not delete.
PruneLeaves ==
    [n \in {m \in DOMAIN LastOp.before :
               GlobPath(m) = LastOp.path \/ m \in LastOp.locked} |-> LastOp.before[n]]

OnlyMostRecentRemains ==
    /\ DOMAIN files = {LastOp.path.stamp}
    /\ LastOp.path.stamp = SetMax(DOMAIN LastOp.before)

----------------------------------------------------------------------------
(* Metrics Aggregator: create_metrics_dataframe on its own *)

\* The keys of CAMPUS_COLORS.
CAMPUS_COLORS == {"UDZ", "BCN", "MAL", "MAD"}

\* A campus the colour table does not hold.
OtherCampus == "LIS"

\* Position of a campus name in the order of Python's str comparison.
StrRank ==
    [c \in CAMPUS_COLORS \cup {OtherCampus} |->
        CASE c = "BCN" -> 1
          [] c = "LIS" -> 2
          [] c = "MAD" -> 3
          [] c = "MAL" -> 4
          [] c = "UDZ" -> 5]

\* sorted(S) for a set of campus names.
RECURSIVE sorted(_)
sorted(S) ==
    IF S = {} THEN <<>>
    ELSE LET least == CHOOSE c \in S : \A d \in S : StrRank[c] <= StrRank[d]
         IN  <<least>> \o sorted(S \ {least})

\* A DataFrame: columns is FALSE for pd.DataFrame(), which has no column at
\* all; day_columns is the number of columns named day_*.
DataFrame(columns, day_columns, rows) ==
    [kind |-> "frame", columns |-> columns, day_columns |-> day_columns,
     rows |-> rows]

get_current_aoc_day(frame) == frame.day_columns

RECURSIVE ColumnSum(_, _)
ColumnSum(rows, col) ==
    IF rows = <<>> THEN 0 ELSE rows[1][col] + ColumnSum(Tail(rows), col)

\* Series.max(): nan for an empty column.
ColumnMax(rows, col) ==
    IF rows = <<>> THEN [kind |-> "nan"]
    ELSE [kind |-> "number",
          value |-> SetMax({rows[i][col] : i \in 1..Len(rows)})]

\* num / den as numpy divides: no exception, inf or nan for a zero divisor;
\* the quotient rounded to an integer, ties to even, as the .1f format rounds
\* the quotient once the caller has scaled it to tenths.
Quotient(num, den) ==
    IF den = 0
    THEN IF num = 0 THEN [kind |-> "nan"] ELSE [kind |-> "inf"]
    ELSE LET q == num \div den
             r == num % den
         IN  [kind |-> "number",
              value |-> IF 2 * r > den \/ (2 * r = den /\ q % 2 = 1)
                        THEN q + 1 ELSE q]

MetricsReturn(rows) == [kind |-> "return", rows |-> rows]

MetricsRaise(error) == [kind |-> "raise", error |-> error]

\* Lines 156-163 and 174-181: one row of the metrics table, over the records
\* it summarises. Points are in tenths; rates and means are in tenths too.
MetricsRow(section, rows, max_possible_stars) ==
    [Section |-> section,
     Students |-> Len(rows),
     PointsAvg |-> Quotient(ColumnSum(rows, "points"), Len(rows)),
     PointsMax |-> ColumnMax(rows, "points"),
     StreakAvg |-> Quotient(10 * ColumnSum(rows, "streak"), Len(rows)),
     StreakMax |-> ColumnMax(rows, "streak"),
     Gold |-> ColumnSum(rows, "gold_stars"),
     Silver |-> ColumnSum(rows, "silver_stars"),
     SuccessRate |-> Quotient(1000 * ColumnSum(rows, "total_stars"),
                              Len(rows) * max_possible_stars)]

GlobalSection == [campus |-> "Global", color |-> "none"]

\* Line 172: CAMPUS_COLORS[campus].
CampusSection(campus) == [campus |-> campus, color |-> campus]

CampusData(frame, campus) ==
    SelectSeq(frame.rows, LAMBDA r : r.campus = campus)

\* Lines 153-163. The sum of a column without rows is numpy's 0 or, for a
\* column of dtype object (a snapshot read back with a header only), Python's
\* 0, whose division by zero raises ZeroDivisionError.
GlobalMetricsOf(frame) ==
    LET max_possible_stars == get_current_aoc_day(frame) * StarCap
    IN  IF ~frame.columns THEN {MetricsRaise("KeyError")}
        ELSE {MetricsReturn(<<MetricsRow(GlobalSection, frame.rows,
                                         max_possible_stars)>>)}
             \cup (IF frame.rows = <<>>
                   THEN {MetricsRaise("ZeroDivisionError")} ELSE {})

\* Lines 165-181.
CampusMetricsOf(frame) ==
    LET max_possible_stars == get_current_aoc_day(frame) * StarCap
        campuses == sorted({frame.rows[i].campus : i \in 1..Len(frame.rows)})
    IN  IF ~frame.columns THEN {MetricsRaise("KeyError")}
        ELSE IF \E i \in 1..Len(campuses) : campuses[i] \notin CAMPUS_COLORS
        THEN {MetricsRaise("KeyError")}
        ELSE {MetricsReturn(
                 [i \in 1..Len(campuses) |->
                     MetricsRow(CampusSection(campuses[i]),
                                CampusData(frame, campuses[i]),
                                max_possible_stars)])}

\* The outcomes of create_metrics_dataframe(df, is_global).
create_metrics_dataframe(frame, is_global) ==
    IF is_global THEN GlobalMetricsOf(frame) ELSE CampusMetricsOf(frame)

\* Datasets handed to the aggregator: pd.DataFrame(), and tables of up to
\* MaxRows records under up to MaxDays day columns.
MetricRecord(campus, gold, silver) ==
    [kind |-> "record", login |-> "erin", campus |-> campus, streak |-> 3,
     points |-> 75, gold_stars |-> gold, silver_stars |-> silver,
     total_stars |-> gold + silver]

MetricRecords(day_columns) ==
    {MetricRecord(c, g, s) :
        c \in {"BCN", "MAD", OtherCampus},
        g \in 0..Min(1, day_columns), s \in 0..Min(1, day_columns)}

MetricsInputs ==
    {DataFrame(FALSE, 0, <<>>)}
    \cup UNION {{DataFrame(TRUE, n, rows) :
                    rows \in SeqsUpTo(MetricRecords(n), MaxRows)} :
                n \in 0..MaxDays}

MetricsDone(is_global, out) ==
    [kind |-> "done", is_global |-> is_global, out |-> out]

InitMetrics ==
    /\ InitLoader
    /\ loaders = NoLoaders
    /\ row = NoRow
    /\ record = PendingRecord
    /\ files = <<>>
    /\ dataset \in MetricsInputs

\* create_metrics_dataframe(df, is_global=True)
GlobalMetrics ==
    /\ metrics = PendingMetrics
    /\ \E out \in create_metrics_dataframe(dataset, TRUE) :
          metrics' = MetricsDone(TRUE, out)
    /\ UNCHANGED <<row, record, clock, ticks, files, storeLog, cache, pc, page,
                   df, scraped, result, raised, signals, log, calls, dataset,
                   loaders>>

\* create_metrics_dataframe(df, is_global=False)
CampusMetrics ==
    /\ metrics = PendingMetrics
    /\ \E out \in create_metrics_dataframe(dataset, FALSE) :
          metrics' = MetricsDone(FALSE, out)
    /\ UNCHANGED <<row, record, clock, ticks, files, storeLog, cache, pc, page,
                   df, scraped, result, raised, signals, log, calls, dataset,
                   loaders>>

NextMetrics == GlobalMetrics \/ CampusMetrics

SpecMetrics == InitMetrics /\ [][NextMetrics]_vars

----------------------------------------------------------------------------
(* C11, C12: the metrics table *)

InsufficientData ==
    dataset.rows = <<>> \/ get_current_aoc_day(dataset) = 0

\* C11: when the dataset has no record or no day column, the global and the
\* per-campus metrics both signal InsufficientDataError: they neither divide by
\* zero nor let a numeric or lookup fault out.
C11_GuardedDivision ==
    (metrics.kind = "done" /\ InsufficientData) =>
        metrics.out = MetricsRaise("InsufficientDataError")

EntryCampuses ==
    [i \in 1..Len(metrics.out.rows) |-> metrics.out.rows[i].Section.campus]

\* C12: for every dataset with at least one record, whatever its campus values
\* (those outside the colour table included), the per-campus metrics hold
\* exactly one entry per distinct campus of the input, by campus name ascending.
C12_OneEntryPerCampus ==
    (metrics.kind = "done" /\ ~metrics.is_global /\ dataset.rows # <<>>) =>
        /\ metrics.out.kind = "return"
        /\ EntryCampuses =
              sorted({dataset.rows[i].campus : i \in 1..Len(dataset.rows)})

----------------------------------------------------------------------------
(* Two load_data() calls that overlap on one ./data, neither holding a lock *)

Loaders == {1, 2}

PendingOut == [kind |-> "pending", value |-> NoneFrame]

\* The locals of one _load in flight: where it is, its df, the filepath its
\* save returned, what is left of the listing its prune walks, and what it
\* returned.
LoaderAt(at, frame, filepath, csv_files, out) ==
    [pc |-> at, df |-> frame, filepath |-> filepath, csv_files |-> csv_files,
     out |-> out]

StartedLoader == LoaderAt("scrape", NoneFrame, NoPath, <<>>, PendingOut)

\* Pages whose scrape succeeds with rows.
FreshPages ==
    {Page("ok", TRUE, TRUE, <<AliceRow>>, FALSE),
     Page("ok", TRUE, TRUE, <<BobRow, AliceRow>>, FALSE)}

OthersUnchanged ==
    UNCHANGED <<row, record, cache, pc, page, df, scraped, result, raised,
                signals, log, calls, dataset, metrics>>

\* Lines 104-107 in one of the calls, for a scrape that brings rows.
OverlapScrape ==
    /\ \E p \in Loaders : \E pg \in FreshPages : \E out \in scrape_data(pg) :
          /\ loaders[p].pc = "scrape"
          /\ out.kind # "raise" /\ ~IsEmpty(out.frame)
          /\ loaders' = [loaders EXCEPT ![p].df = out.frame, ![p].pc = "save"]
    /\ UNCHANGED <<clock, ticks, files, storeLog>>
    /\ OthersUnchanged

\* Line 118 in call p, for a scraper class with the given methods:
\* AttributeError without save_data, else the snapshot is written.
SaveStep(p, methods) ==
    /\ loaders[p].pc = "save"
    /\ IF "save_data" \notin methods
       THEN /\ loaders' = [loaders EXCEPT ![p].pc = "except"]
            /\ UNCHANGED <<files, storeLog>>
       ELSE LET saved == save_data(loaders[p].df, clock, files)
            IN  /\ files' = saved.dir
                /\ storeLog' = Append(storeLog,
                                      StoreOp("save", saved.path, <<>>, {}))
                /\ loaders' = [loaders EXCEPT ![p].filepath = saved.path,
                                              ![p].pc = "glob"]

\* Line 118 in one of the calls, with class AOCScraper as it is.
OverlapSave ==
    /\ UNCHANGED <<clock, ticks>>
    /\ OthersUnchanged
    /\ \E p \in Loaders : SaveStep(p, AOCScraperMethods)

\* Lines 126-134 in one of the calls.
OverlapExcept ==
    /\ \E p \in Loaders : \E e \in except_branch(files) :
          /\ loaders[p].pc = "except"
          /\ loaders' = [loaders EXCEPT ![p].df = load_backup_data(files),
                                        ![p].out = e.out,
                                        ![p].pc = "done"]
    /\ UNCHANGED <<clock, ticks, files, storeLog>>
    /\ OthersUnchanged

\* Both calls start together on a store that is empty or holds snapshots.
InitOverlap ==
    /\ InitLoader
    /\ row = NoRow
    /\ record = PendingRecord
    /\ dataset = NoDataset
    /\ files \in InitDirs
    /\ loaders = [p \in Loaders |-> StartedLoader]

NextOverlap == OverlapScrape \/ OverlapSave \/ OverlapExcept \/ Tick

SpecOverlap == InitOverlap /\ [][NextOverlap]_vars

----------------------------------------------------------------------------
(* The same two calls with a scraper that has the Snapshot Store's save *)

\* Line 118 in one of the calls, save_data being the Snapshot Store's save.
OverlapSaveWritten ==
    /\ UNCHANGED <<clock, ticks>>
    /\ OthersUnchanged
    /\ \E p \in Loaders : SaveStep(p, AOCScraperMethods \cup {"save_data"})

\* Line 34 in one of the calls: the glob of clean_old_files(filepath).
OverlapGlob ==
    /\ \E p \in Loaders : \E listing \in GlobListings(files) :
          /\ loaders[p].pc = "glob"
          /\ loaders' = [loaders EXCEPT
                            ![p].csv_files = listing,
                            ![p].pc = IF listing = <<>> THEN "return"
                                      ELSE "remove"]
    /\ UNCHANGED <<clock, ticks, files, storeLog>>
    /\ OthersUnchanged

\* Lines 37-44 in one of the calls: one turn of the loop, whose os.remove may
\* fail; removing a file the other call has removed fails too and is logged.
OverlapRemove ==
    /\ \E p \in Loaders : \E fails \in BOOLEAN :
          LET file == Head(loaders[p].csv_files)
              rest == Tail(loaders[p].csv_files)
              locked == IF fails THEN {file.stamp} ELSE {}
          IN  /\ loaders[p].pc = "remove"
              /\ files' = clean_old_files(<<file>>, loaders[p].filepath,
                                          locked, files)
              /\ storeLog' =
                    IF files' # files
                    THEN Append(storeLog, StoreOp("remove", file, <<>>, {}))
                    ELSE storeLog
              /\ loaders' = [loaders EXCEPT
                                ![p].csv_files = rest,
                                ![p].pc = IF rest = <<>> THEN "return"
                                          ELSE "remove"]
    /\ UNCHANGED <<clock, ticks>>
    /\ OthersUnchanged

\* Line 124 in one of the calls.
OverlapReturn ==
    /\ \E p \in Loaders : \E out \in return_value(loaders[p].df) :
          /\ loaders[p].pc = "return"
          /\ loaders' = [loaders EXCEPT
                            ![p].out = out,
                            ![p].pc = IF out.kind = "raise" THEN "except"
                                      ELSE "done"]
    /\ UNCHANGED <<clock, ticks, files, storeLog>>
    /\ OthersUnchanged

InitOverlapSaved ==
    /\ InitLoader
    /\ row = NoRow
    /\ record = PendingRecord
    /\ dataset = NoDataset
    /\ files \in {d \in InitDirs : DOMAIN d \subseteq {0}
                                   /\ \A n \in DOMAIN d : d[n].readable}
    /\ loaders = [p \in Loaders |-> StartedLoader]

NextOverlapSaved ==
    \/ OverlapScrape \/ OverlapSaveWritten \/ OverlapGlob \/ OverlapRemove
    \/ OverlapReturn \/ Tick

SpecOverlapSaved == InitOverlapSaved /\ [][NextOverlapSaved]_vars

----------------------------------------------------------------------------
(* C13: the store after two overlapping calls *)

BothFinished == \A p \in Loaders : loaders[p].pc = "done"

Saves == SelectSeq(storeLog, LAMBDA o : o.op = "save")

\* C13: under every interleaving of two overlapping load() calls whose scrapes
\* both succeed, once both calls have finished the store holds exactly one
\* snapshot, the most recently written one; it is never left with none.
C13_OneSnapshotAfterOverlap ==
    (loaders # NoLoaders /\ BothFinished) =>
        /\ Cardinality(DOMAIN files) = 1
        /\ Saves # <<>>
        /\ DOMAIN files = {Saves[Len(Saves)].path.stamp}

\* Two overlapping calls leave at least one snapshot. With the store's save in
\* place this fails: each call can remove the snapshot the other one keeps.
NeverEmptiedByOverlap ==
    (loaders # NoLoaders /\ BothFinished) => DOMAIN files # {}

====
